---- MODULE Spec2Model ----
(***************************************************************************)
(* Model of src/src/utils/mermaid-init.ts: the discovery pass              *)
(* (renderMermaidDiagrams), the refresh pass (reRenderMermaidDiagrams),    *)
(* the theme observer (observeThemeChange) and the module state            *)
(* (mermaidCodeMap, renderCount), run on a single-threaded event loop in   *)
(* which every `await mermaid.render(...)` is a suspension point.          *)
(***************************************************************************)
EXTENDS Integers, Sequences, FiniteSets, TLC

\* Bounds of the model.
MaxBlocks == 2
MaxMutations == 2
MaxOtherWrites == 2
MaxCalls == 2
MaxThemeWrites == 1

\* Diagram source texts: empty, one the engine accepts, one it rejects.
Texts == {"", "A", "B"}

\* Values of document.documentElement.dataset.theme ("none": attribute absent).
ThemeAttrs == {"none", "dark", "light"}

\* The explicit values the page's theme control writes.
ThemeValues == {"dark", "light"}

\* A `pre code.language-mermaid` block of the page: its textContent and
\* whether codeBlock.parentElement is non-null.
Blocks == [text : Texts, wrapped : {TRUE}] \cup [text : {"A"}, wrapped : {FALSE}]

RECURSIVE SeqsUpTo(_, _)
SeqsUpTo(S, n) ==
    IF n = 0 THEN {<<>>}
    ELSE LET shorter == SeqsUpTo(S, n - 1)
         IN  shorter \cup {Append(s, x) : s \in {t \in shorter : Len(t) = n - 1}, x \in S}

Pages == SeqsUpTo(Blocks, MaxBlocks)

VARIABLES
    page,           \* the code blocks of the loaded page, in document order
    doc,            \* doc[k] = 0: block k is still in the document; c > 0: container c replaced it
    dataTheme,      \* document.documentElement.dataset.theme
    prefersDark,    \* window.matchMedia('(prefers-color-scheme: dark)').matches
    engineTheme,    \* the theme of mermaid's process-wide configuration
    engineRejects,  \* the source texts mermaid.render rejects
    containers,     \* the div.mermaid elements created so far
    mermaidCodeMap, \* Map<Element, string>: the entries [key |-> container, code |-> text]
    renderCount,    \* the epoch counter
    passes,         \* every call of renderMermaidDiagrams / reRenderMermaidDiagrams
    observers,      \* MutationObservers installed by observeThemeChange
    records,        \* attributeName of the mutation records queued for the observer
    laterRecords,   \* the same queue of each observer a further call of initMermaid installed
    mutations,      \* theme-attribute writes the observer has been sent a record of
    quietWrites,    \* every such write was made while no pass was suspended
    otherWrites,    \* writes of other attributes of the document root so far
    issued,         \* identifiers handed to mermaid.render so far
    reused          \* some identifier was handed to mermaid.render twice

vars == <<page, doc, dataTheme, prefersDark, engineTheme, engineRejects, containers,
          mermaidCodeMap, renderCount, passes, observers, records, laterRecords,
          mutations, quietWrites, otherWrites, issued, reused>>

NoHtml == [kind |-> "none", theme |-> "none", src |-> "", epoch |-> 0, idx |-> 0, by |-> 0]

\* A resolver that returns whatever explicit marker is present.
getCurrentThemeAnyMarker(attr, dark) ==
    IF attr # "none" THEN attr
    ELSE IF dark THEN "dark" ELSE "light"

\* getCurrentTheme, lines 12-19.
getCurrentTheme(attr, dark) ==
    IF attr = "dark" \/ attr = "light" THEN attr
    ELSE IF dark THEN "dark" ELSE "light"

\* A configure step that ignores the theme.
initMermaidDefault(theme) == "default"

\* initMermaidWithTheme, lines 22-31: the theme handed to mermaid.initialize.
initMermaidWithTheme(theme) == IF theme = "dark" THEN "dark" ELSE "default"

\* mermaid.render(id, code) resolves with markup for a source it can parse and
\* rejects otherwise.
EngineAccepts(code) == code \in Texts /\ code \notin engineRejects

\* What a reader of diagram.textContent would get: not the diagram's source.
TextContent(h) ==
    IF h.kind = "svg" THEN "labels" ELSE IF h.kind = "err" THEN "Mermaid Error" ELSE ""

\* A refresh that re-reads the source from the rendered container.
LookupCodeFromContent(c) == TextContent(containers[c].html)

\* A lookup that returns the source of the first registered container.
LookupCodeFirst(c) ==
    IF mermaidCodeMap = {} THEN "undefined"
    ELSE (CHOOSE e \in mermaidCodeMap : \A f \in mermaidCodeMap : e.key <= f.key).code

\* mermaidCodeMap.get(diagram), line 110: undefined when there is no entry.
LookupCode(c) ==
    IF \E e \in mermaidCodeMap : e.key = c
    THEN (CHOOSE e \in mermaidCodeMap : e.key = c).code
    ELSE "undefined"

\* A registration that keeps only non-empty sources.
RegisterNonEmpty(map, c, code) ==
    IF code = "" THEN map
    ELSE {e \in map : e.key # c} \cup {[key |-> c, code |-> code]}

\* A registration that stores a default text in place of an empty source.
RegisterDefaulted(map, c, code) ==
    {e \in map : e.key # c} \cup {[key |-> c, code |-> IF code = "" THEN "A" ELSE code]}

\* A registration that starts the registry afresh.
RegisterOnly(map, c, code) == {[key |-> c, code |-> code]}

\* mermaidCodeMap.set(container, code), line 55.
Register(map, c, code) == {e \in map : e.key # c} \cup {[key |-> c, code |-> code]}

\* An observer registered without attributeFilter: every attribute is observed.
ObservedAll(name) == TRUE

\* observer.observe(document.documentElement, {attributes: true,
\* attributeFilter: ['data-theme']}), lines 90-93: the attributes whose changes
\* are queued for the observer.
Observed(name) == name \in {"data-theme"}

\* A callback whose test no record passes.
MatchesNothing(name) == FALSE

\* The test of the callback, lines 79-82 (every record the observer gets has
\* type 'attributes').
Matches(name) == name = "data-theme"

\* Other attributes of the document root that the page writes.
OtherAttrs == {"class", "lang"}

\* A test that lets a missing entry through: only '' is skipped.
FalsyEmptyOnly(code) == code = ""

\* `if (!code) continue`, line 111: undefined and '' are both falsy.
Falsy(code) == code = "" \/ code = "undefined"

\* The module state after import (lines 4-5) on a freshly loaded page. The
\* engine's verdict on the empty text is left open where the page has an empty
\* block; on any other page no call carries the empty text.
Init ==
    /\ page \in Pages
    /\ doc = [k \in 1..Len(page) |-> 0]
    /\ dataTheme = "none"
    /\ prefersDark \in BOOLEAN
    /\ engineTheme = "default"
    /\ engineRejects \in {{"B"}, {"B", ""}}
    /\ "" \in engineRejects => \E k \in 1..Len(page) : page[k].text = ""
    /\ containers = <<>>
    /\ mermaidCodeMap = {}
    /\ renderCount = 0
    /\ passes = <<>>
    /\ observers = 0
    /\ records = <<>>
    /\ laterRecords = <<>>
    /\ mutations = 0
    /\ quietWrites = TRUE
    /\ otherWrites = 0
    /\ issued = {}
    /\ reused = FALSE

\* A loop that takes the last of the remaining diagrams first.
Max(S) == CHOOSE x \in S : \A y \in S : x >= y

Min(S) == CHOOSE x \in S : \A y \in S : x <= y

\* A pass that has not issued a render call, or has ended.
NoCall(ps) ==
    [ps EXCEPT !.target = 0, !.callTheme = "none", !.callText = "",
               !.callEpoch = 0, !.callIdx = 0]

NewPass(kind, theme, items, solo) ==
    [kind |-> kind, theme |-> theme, items |-> items, pos |-> 0, index |-> 0,
     st |-> "start", target |-> 0, callTheme |-> "none", callText |-> "",
     callEpoch |-> 0, callIdx |-> 0, solo |-> solo,
     known |-> {e.key : e \in mermaidCodeMap}]

Awaiting == {p \in 1..Len(passes) : passes[p].st = "await"}

\* The passes as a newly started one finds them: it overlaps every suspended pass.
Overlapped == [p \in 1..Len(passes) |->
                 IF passes[p].st = "await" THEN [passes[p] EXCEPT !.solo = FALSE]
                 ELSE passes[p]]

\* document.querySelectorAll('pre code.language-mermaid'), line 39, in document order.
RECURSIVE codeBlocksFrom(_, _)
codeBlocksFrom(d, k) ==
    IF k > Len(d) THEN <<>>
    ELSE IF d[k] = 0 THEN <<k>> \o codeBlocksFrom(d, k + 1)
    ELSE codeBlocksFrom(d, k + 1)

\* document.querySelectorAll('.mermaid'), line 102, in document order.
RECURSIVE diagramsFrom(_, _)
diagramsFrom(d, k) ==
    IF k > Len(d) THEN <<>>
    ELSE IF d[k] # 0 THEN <<d[k]>> \o diagramsFrom(d, k + 1)
    ELSE diagramsFrom(d, k + 1)

\* A loop without the wrapper test: the next code block, wrapped or not.
NextBlock(items, from) == IF from > Len(items) THEN Len(items) + 1 ELSE from

\* `if (!pre) continue`, lines 43-44: the next code block that has a wrapper.
NextWrapped(items, from) ==
    LET S == {j \in from..Len(items) : page[items[j]].wrapped}
    IN  IF S = {} THEN Len(items) + 1 ELSE Min(S)

\* Lines 110-111: the next diagram whose registered code is truthy.
NextCoded(items, from) ==
    LET S == {j \in from..Len(items) : ~Falsy(LookupCode(items[j]))}
    IN  IF S = {} THEN Len(items) + 1 ELSE Min(S)

\* A refresh pass without the early return.
NeverReturnsEarly(diagrams) == FALSE

\* `if (diagrams.length === 0) return`, line 104.
ReturnsEarly(diagrams) == Len(diagrams) = 0

\* A pass that ends without counting itself.
SameEpoch(count) == count

\* renderCount++, lines 72 and 125.
NextEpoch(count) == count + 1

\* A loop without the catch: a rejected render ends the pass.
AfterSettleNoCatch(ok) == IF ok THEN "next" ELSE "abort"

\* The try/catch of lines 58-65 and 113-120: the loop goes on to the next
\* diagram whether the render resolved or rejected.
AfterSettle(ok) == "next"

\* A catch that only logs: a rejected render leaves the content as it was.
WrittenOnSuccess(ps, p) ==
    IF EngineAccepts(ps.callText)
    THEN [kind |-> "svg", theme |-> ps.callTheme, src |-> ps.callText,
          epoch |-> ps.callEpoch, idx |-> ps.callIdx, by |-> p]
    ELSE containers[ps.target].html

\* container.innerHTML = svg (lines 61, 116) or the error placeholder (lines 64, 119).
Written(ps, p) ==
    [kind |-> IF EngineAccepts(ps.callText) THEN "svg" ELSE "err",
     theme |-> ps.callTheme, src |-> ps.callText,
     epoch |-> ps.callEpoch, idx |-> ps.callIdx, by |-> p]

\* The loop of renderMermaidDiagrams (lines 42-72) from code block `from` on, up to
\* its next `await mermaid.render` or its end.
DiscoverFrom(p, ps, from, pp, conts, cfg) ==
    LET j == NextWrapped(ps.items, from)
    IN  IF j > Len(ps.items)
        THEN /\ renderCount' = NextEpoch(renderCount)
             /\ passes' = [pp EXCEPT ![p] = NoCall([ps EXCEPT !.pos = j, !.st = "done"])]
             /\ containers' = conts
             /\ UNCHANGED <<mermaidCodeMap, issued, reused>>
        ELSE LET k == ps.items[j]
                 code == page[k].text
                 c == Len(conts) + 1
                 id == <<renderCount, ps.index>>
             IN  /\ containers' = Append(conts, [slot |-> k, index |-> ps.index, html |-> NoHtml])
                 /\ mermaidCodeMap' = Register(mermaidCodeMap, c, code)
                 /\ passes' = [pp EXCEPT ![p] =
                        [ps EXCEPT !.pos = j, !.st = "await", !.target = c,
                                   !.callTheme = cfg, !.callText = code,
                                   !.callEpoch = renderCount, !.callIdx = ps.index]]
                 /\ issued' = issued \cup {id}
                 /\ reused' = (reused \/ id \in issued)
                 /\ UNCHANGED renderCount

\* A live collection: the loop sees the diagrams that are in the document now.
EnumeratedLive(ps) == diagramsFrom(doc, 1)

\* The NodeList of querySelectorAll('.mermaid') (line 102) is static: the loop
\* of lines 108-123 goes through the diagrams found when the pass started.
EnumeratedDiagrams(ps) == ps.items

\* A refresh loop that scans the document for source blocks, as discovery does.
RefreshWithDiscovery(p, ps, from, pp, conts, cfg) ==
    DiscoverFrom(p, [ps EXCEPT !.items = codeBlocksFrom(doc, 1)], 1, pp, conts, cfg)

\* The loop of reRenderMermaidDiagrams (lines 108-125) from diagram `from` on, up to
\* its next `await mermaid.render` or its end.
RefreshFrom(p, ps, from, pp, conts, cfg) ==
    LET j == NextCoded(EnumeratedDiagrams(ps), from)
    IN  /\ containers' = conts
        /\ UNCHANGED mermaidCodeMap
        /\ IF j > Len(EnumeratedDiagrams(ps))
           THEN /\ renderCount' = NextEpoch(renderCount)
                /\ passes' = [pp EXCEPT ![p] = NoCall([ps EXCEPT !.pos = j, !.st = "done"])]
                /\ UNCHANGED <<issued, reused>>
           ELSE LET c == EnumeratedDiagrams(ps)[j]
                    code == LookupCode(c)
                    id == <<renderCount, ps.index>>
                IN  /\ passes' = [pp EXCEPT ![p] =
                           [ps EXCEPT !.pos = j, !.st = "await", !.target = c,
                                      !.callTheme = cfg, !.callText = code,
                                      !.callEpoch = renderCount, !.callIdx = ps.index]]
                    /\ issued' = issued \cup {id}
                    /\ reused' = (reused \/ id \in issued)
                    /\ UNCHANGED renderCount

\* renderMermaidDiagrams up to its first await (lines 34-60).
renderMermaidDiagrams ==
    LET theme == getCurrentTheme(dataTheme, prefersDark)
        cfg == initMermaidWithTheme(theme)
        p == Len(passes) + 1
        ps == NewPass("discovery", theme, codeBlocksFrom(doc, 1), Awaiting = {})
    IN  /\ engineTheme' = cfg
        /\ DiscoverFrom(p, ps, 1, Append(Overlapped, ps), containers, cfg)
        /\ UNCHANGED doc

\* reRenderMermaidDiagrams up to its first await (lines 97-115).
reRenderMermaidDiagrams ==
    LET theme == getCurrentTheme(dataTheme, prefersDark)
        cfg == initMermaidWithTheme(theme)
        p == Len(passes) + 1
        ps == NewPass("refresh", theme, diagramsFrom(doc, 1), Awaiting = {})
    IN  /\ engineTheme' = cfg
        /\ UNCHANGED doc
        /\ IF ReturnsEarly(ps.items)
           THEN /\ passes' = Append(Overlapped, [ps EXCEPT !.st = "done"])
                /\ UNCHANGED <<renderCount, containers, mermaidCodeMap, issued, reused>>
           ELSE RefreshFrom(p, ps, 1, Append(Overlapped, ps), containers, cfg)

\* initMermaid, lines 10 and 128-130: the discovery pass is started and the
\* observer installed in the same synchronous run.
InitMermaid ==
    /\ observers = 0
    /\ renderMermaidDiagrams
    /\ observers' = observers + 1
    /\ UNCHANGED <<page, dataTheme, prefersDark, engineRejects, records, laterRecords,
                   mutations, quietWrites, otherWrites>>

\* A document root that queues its records for the first observer only.
QueuedForFirst(queues, name) == queues

\* observer.observe(document.documentElement, ...), lines 90-93: every observer
\* registered on the document root has a queue of its own, and a write of an
\* observed attribute appends a record to each.
QueuedFor(queues, name) == [i \in DOMAIN queues |-> Append(queues[i], name)]

\* The page writes the theme attribute and the installed observer gets a record
\* (observer.observe, lines 90-93), also when the value written is the one the
\* attribute already has. A pass reads the attribute only through
\* getCurrentTheme: the page loads without the attribute, so the first pass
\* resolves the theme from prefersDark, and every later write is explicit.
SetTheme(v) ==
    /\ observers > 0
    /\ mutations < MaxMutations
    /\ dataTheme' = v
    /\ mutations' = mutations + 1
    /\ records' = IF Observed("data-theme") THEN Append(records, "data-theme") ELSE records
    /\ laterRecords' = IF Observed("data-theme") THEN QueuedFor(laterRecords, "data-theme")
                       ELSE laterRecords
    /\ quietWrites' = (quietWrites /\ Awaiting = {})
    /\ UNCHANGED <<page, doc, prefersDark, engineTheme, engineRejects, containers,
                   mermaidCodeMap, renderCount, passes, observers, otherWrites, issued,
                   reused>>

\* The page writes another attribute of the document root.
SetOther(name) ==
    /\ otherWrites < MaxOtherWrites
    /\ otherWrites' = otherWrites + 1
    /\ records' = IF observers > 0 /\ Observed(name) THEN Append(records, name) ELSE records
    /\ laterRecords' = IF Observed(name) THEN QueuedFor(laterRecords, name) ELSE laterRecords
    /\ UNCHANGED <<page, doc, dataTheme, prefersDark, engineTheme, engineRejects,
                   containers, mermaidCodeMap, renderCount, passes, observers, mutations,
                   quietWrites, issued, reused>>

\* The MutationObserver callback, lines 77-88: the batch of queued records is
\* delivered, and reRenderMermaidDiagrams is called once, at the first record that
\* matches (`break`, line 85).
ObserverCallback ==
    /\ records # <<>>
    /\ IF \E i \in 1..Len(records) : Matches(records[i])
       THEN reRenderMermaidDiagrams
       ELSE UNCHANGED <<doc, engineTheme, containers, mermaidCodeMap, renderCount, passes,
                        issued, reused>>
    /\ records' = <<>>
    /\ UNCHANGED <<page, dataTheme, prefersDark, engineRejects, observers, laterRecords,
                   mutations, quietWrites, otherWrites>>

\* Continuations that run in the order in which their passes were started.
CanResumeInTurn(p) == passes[p].st = "await" /\ p = Min(Awaiting)

\* Pass p is suspended at `await mermaid.render` (lines 60, 115): its
\* continuation runs when that call settles, whatever other passes are doing.
CanResume(p) == passes[p].st = "await"

\* The pending mermaid.render of pass p settles and the pass runs on to its next
\* await or to its end (lines 60-72, 115-125).
Resume(p) ==
    /\ CanResume(p)
    /\ LET ps == passes[p]
           c == ps.target
           conts == [containers EXCEPT ![c].html = Written(ps, p)]
           slot == containers[c].slot
           next == [ps EXCEPT !.index = ps.index + 1]
       IN  IF AfterSettle(EngineAccepts(ps.callText)) = "next"
           THEN IF ps.kind = "discovery"
                THEN /\ doc' = IF doc[slot] = 0 THEN [doc EXCEPT ![slot] = c] ELSE doc
                     /\ DiscoverFrom(p, next, ps.pos + 1, passes, conts, engineTheme)
                ELSE /\ UNCHANGED doc
                     /\ RefreshFrom(p, next, ps.pos + 1, passes, conts, engineTheme)
           ELSE /\ passes' = [passes EXCEPT ![p] = NoCall([ps EXCEPT !.st = "rejected"])]
                /\ UNCHANGED <<doc, containers, mermaidCodeMap, renderCount, issued, reused>>
    /\ UNCHANGED <<page, dataTheme, prefersDark, engineTheme, engineRejects, observers,
                   records, laterRecords, mutations, quietWrites, otherWrites>>

Next ==
    \/ InitMermaid
    \/ \E v \in ThemeValues : SetTheme(v)
    \/ ObserverCallback
    \/ \E p \in 1..Len(passes) : Resume(p)

Spec == Init /\ [][Next]_vars

TypeOK ==
    /\ page \in Pages
    /\ dataTheme \in ThemeAttrs
    /\ engineTheme \in {"dark", "default"}
    /\ renderCount \in Nat
    /\ \A e \in mermaidCodeMap : e.key \in 1..Len(containers)
    /\ \A p \in 1..Len(passes) : passes[p].st \in {"await", "done", "rejected"}

(***************************************************************************)
(* The module on every kind of input from its environment: pages of at     *)
(* most one block, a theme attribute that is absent, "dark", "light" or    *)
(* something else, an ambient preference that changes while the page is    *)
(* open, and writes of other attributes of the document root.              *)
(***************************************************************************)
\* Values of dataset.theme: absent, the two themes, and values that are neither.
AttrValues == ThemeAttrs \cup {"", "auto", "Dark"}

ShortPages == {pg \in Pages : Len(pg) <= 1}

ThemeInit ==
    /\ page \in ShortPages
    /\ doc = [k \in 1..Len(page) |-> 0]
    /\ dataTheme \in AttrValues
    /\ prefersDark \in BOOLEAN
    /\ engineTheme = "default"
    /\ engineRejects = {"B"}
    /\ containers = <<>>
    /\ mermaidCodeMap = {}
    /\ renderCount = 0
    /\ passes = <<>>
    /\ observers = 0
    /\ records = <<>>
    /\ laterRecords = <<>>
    /\ mutations = 0
    /\ quietWrites = TRUE
    /\ otherWrites = 0
    /\ issued = {}
    /\ reused = FALSE

\* window.matchMedia('(prefers-color-scheme: dark)').matches (line 18) changes:
\* the module listens to no event of it.
PreferenceChange ==
    /\ prefersDark' = ~prefersDark
    /\ UNCHANGED <<page, doc, dataTheme, engineTheme, engineRejects, containers,
                   mermaidCodeMap, renderCount, passes, observers, records, laterRecords,
                   mutations, quietWrites, otherWrites, issued, reused>>

ThemeNext ==
    \/ InitMermaid
    \/ \E v \in AttrValues : SetTheme(v)
    \/ PreferenceChange
    \/ \E name \in OtherAttrs : SetOther(name)
    \/ ObserverCallback
    \/ \E p \in 1..Len(passes) : Resume(p)

ThemeSpec == ThemeInit /\ [][ThemeNext]_vars

(***************************************************************************)
(* An engine call that may never settle: every pending render of every     *)
(* pass but the first refresh pass settles eventually, and every queued    *)
(* batch is delivered; the first refresh pass may wait for ever.           *)
(***************************************************************************)
Settle(p) == p \in 1..Len(passes) /\ Resume(p)

StallSpec ==
    /\ ThemeInit
    /\ [][Next]_vars
    /\ WF_vars(ObserverCallback)
    /\ \A p \in (1..(MaxMutations + 1)) \ {2} : WF_vars(Settle(p))

(***************************************************************************)
(* An engine whose every call settles: each pending render of each pass    *)
(* resolves or rejects eventually.                                         *)
(***************************************************************************)
\* Pages on which every block is rendered by every pass, rejected and accepted
\* sources in turn.
FullPages ==
    {pg \in Pages :
        \A k \in 1..Len(pg) :
            pg[k].wrapped /\ pg[k].text = (IF k % 2 = 1 THEN "B" ELSE "A")}

FairInit == Init /\ page \in FullPages

FairSpec ==
    /\ FairInit
    /\ [][Next]_vars
    /\ \A p \in 1..(MaxMutations + 1) : WF_vars(Settle(p))

(***************************************************************************)
(* initMermaid called more than once, e.g. by a hook that runs on every    *)
(* page navigation: every call runs lines 128-130 against the module       *)
(* state of lines 4-5.                                                     *)
(***************************************************************************)
\* A further call of initMermaid: another discovery pass, and another
\* MutationObserver (line 77) registered on the document root with an empty
\* queue; nothing disconnects the observers installed before.
InitMermaidAgain ==
    /\ observers \in 1..(MaxCalls - 1)
    /\ renderMermaidDiagrams
    /\ observers' = observers + 1
    /\ laterRecords' = Append(laterRecords, <<>>)
    /\ UNCHANGED <<page, dataTheme, prefersDark, engineRejects, records, mutations,
                   quietWrites, otherWrites>>

\* The callback (lines 77-88) of the observer installed by call i + 1 is handed
\* its queued records. Observers are notified in the order of their creation.
LaterObserverCallback(i) ==
    /\ i \in 1..Len(laterRecords)
    /\ records = <<>>
    /\ \A j \in 1..(i - 1) : laterRecords[j] = <<>>
    /\ laterRecords[i] # <<>>
    /\ IF \E r \in 1..Len(laterRecords[i]) : Matches(laterRecords[i][r])
       THEN reRenderMermaidDiagrams
       ELSE UNCHANGED <<doc, engineTheme, containers, mermaidCodeMap, renderCount, passes,
                        issued, reused>>
    /\ laterRecords' = [laterRecords EXCEPT ![i] = <<>>]
    /\ UNCHANGED <<page, dataTheme, prefersDark, engineRejects, observers, records,
                   mutations, quietWrites, otherWrites>>

\* The observers with queued records are being notified: an earlier observer
\* has been handed its batch and a later one has not yet. All of them are
\* notified in one microtask, in which no script and no continuation runs.
Notifying ==
    \E j \in 1..Len(laterRecords) :
        /\ laterRecords[j] # <<>>
        /\ records = <<>> \/ \E i \in 1..(j - 1) : laterRecords[i] = <<>>

MultiNext ==
    \/ ~Notifying /\ InitMermaid
    \/ ~Notifying /\ InitMermaidAgain
    \/ ~Notifying /\ mutations < MaxThemeWrites /\ \E v \in ThemeValues : SetTheme(v)
    \/ ~Notifying /\ ObserverCallback
    \/ ~Notifying /\ \E p \in 1..Len(passes) : Resume(p)
    \/ \E i \in 1..Len(laterRecords) : LaterObserverCallback(i)

\* Pages of at most one block.
MultiInit == Init /\ page \in ShortPages

MultiSpec == MultiInit /\ [][MultiNext]_vars

(***************************************************************************)
(* A page that carries elements of class `mermaid` of its own: the         *)
(* selector of line 102 matches them, the registry has no entry for them.  *)
(***************************************************************************)
\* A position of the page that holds such an element instead of a code block.
ForeignSlot == [text |-> "", wrapped |-> FALSE]

\* The content such an element has when the page loads.
ForeignHtml == [kind |-> "foreign", theme |-> "none", src |-> "", epoch |-> 0, idx |-> 0, by |-> 0]

\* Pages of wrapped, non-empty code blocks with at least one such element.
ForeignPages ==
    {pg \in SeqsUpTo([text : {"A", "B"}, wrapped : {TRUE}] \cup {ForeignSlot}, MaxBlocks) :
        \E k \in 1..Len(pg) : pg[k] = ForeignSlot}

ForeignsUpTo(pg, k) == Cardinality({i \in 1..k : pg[i] = ForeignSlot})

\* The module state after import on such a page: the elements are in the
\* document, in document order, and mermaidCodeMap is empty.
ForeignInit ==
    /\ page \in ForeignPages
    /\ doc = [k \in 1..Len(page) |->
                IF page[k] = ForeignSlot THEN ForeignsUpTo(page, k) ELSE 0]
    /\ containers = [c \in 1..ForeignsUpTo(page, Len(page)) |->
                       [slot |-> CHOOSE k \in 1..Len(page) :
                                    page[k] = ForeignSlot /\ ForeignsUpTo(page, k) = c,
                        index |-> -1, html |-> ForeignHtml]]
    /\ dataTheme = "none"
    /\ prefersDark \in BOOLEAN
    /\ engineTheme = "default"
    /\ engineRejects = {"B"}
    /\ mermaidCodeMap = {}
    /\ renderCount = 0
    /\ passes = <<>>
    /\ observers = 0
    /\ records = <<>>
    /\ laterRecords = <<>>
    /\ mutations = 0
    /\ quietWrites = TRUE
    /\ otherWrites = 0
    /\ issued = {}
    /\ reused = FALSE

ForeignSpec == ForeignInit /\ [][Next]_vars

(***************************************************************************)
(* Vocabulary of the properties.                                           *)
(***************************************************************************)
Ended(p) == passes[p].st \in {"done", "rejected"}

\* The code blocks of the page that have a wrapper.
WrappedBlocks == {k \in 1..Len(page) : page[k].wrapped}

\* The containers that are in the document.
Displayed == {doc[k] : k \in {i \in 1..Len(doc) : doc[i] # 0}}

\* The content a settled render of code leaves in a container.
ResultKind(code) == IF EngineAccepts(code) THEN "svg" ELSE "err"

\* The diagrams of pass p for which it issues a render call.
Rendered(p) ==
    IF passes[p].kind = "discovery"
    THEN {j \in 1..Len(passes[p].items) : page[passes[p].items[j]].wrapped}
    ELSE {j \in 1..Len(passes[p].items) : ~Falsy(LookupCode(passes[p].items[j]))}

\* The container of diagram j of pass p (0: not in the document).
ContainerOf(p, j) ==
    IF passes[p].kind = "discovery" THEN doc[passes[p].items[j]] ELSE passes[p].items[j]

\* C1: once the discovery pass has finished over a page with N wrapped blocks,
\* the registry holds exactly N entries, one per created container, and the
\* lookup of the container that replaced a block returns that block's text,
\* whatever the outcome of its render.
C1_RegistryAfterDiscovery ==
    (Len(passes) >= 1 /\ passes[1].st = "done") =>
        /\ Cardinality(mermaidCodeMap) = Cardinality(WrappedBlocks)
        /\ Len(containers) = Cardinality(WrappedBlocks)
        /\ \A c \in 1..Len(containers) : \E e \in mermaidCodeMap : e.key = c
        /\ \A k \in WrappedBlocks :
               /\ doc[k] # 0
               /\ containers[doc[k]].slot = k
               /\ LookupCode(doc[k]) = page[k].text

\* C1's case: a finished discovery pass over two wrapped blocks, one of which the
\* engine rejected and one of which has an empty source.
C1_Witness ==
    /\ Len(passes) >= 1 /\ passes[1].st = "done"
    /\ Cardinality(WrappedBlocks) = 2
    /\ \E c \in 1..Len(containers) : containers[c].html.kind = "err"
    /\ \E c \in 1..Len(containers) : LookupCode(c) = ""

\* C2: a pass that has ended has settled a render for every diagram it renders,
\* and each of them shows the outcome of its own render: markup where the engine
\* accepted the source, an error placeholder where it rejected it. A rejection
\* does not stop the pass.
C2_FailureIsolated ==
    \A p \in 1..Len(passes) :
        Ended(p) =>
            /\ passes[p].st = "done"
            /\ passes[p].index = Cardinality(Rendered(p))
            /\ \A j \in Rendered(p) :
                   /\ ContainerOf(p, j) # 0
                   /\ containers[ContainerOf(p, j)].html.kind
                          = ResultKind(LookupCode(ContainerOf(p, j)))

\* C2's case: a refresh pass has ended whose first diagram was rejected and whose
\* second diagram shows markup written by that pass.
C2_Witness ==
    \E p \in 1..Len(passes) :
        /\ passes[p].kind = "refresh" /\ passes[p].st = "done"
        /\ Len(passes[p].items) = 2
        /\ containers[passes[p].items[1]].html.kind = "err"
        /\ containers[passes[p].items[2]].html.kind = "svg"
        /\ containers[passes[p].items[2]].html.by = p

\* Every engine call has settled and every queued record has been delivered.
Quiescent == observers > 0 /\ records = <<>> /\ Awaiting = {}

\* The theme mermaid would be configured with now.
CurrentEngineTheme == initMermaidWithTheme(getCurrentTheme(dataTheme, prefersDark))

\* C3: once all engine calls have settled, every displayed diagram (with a
\* non-empty source, which every refresh pass renders) shows output written by
\* the most recently requested pass and by no earlier pass.
C3_LatestPassOnly ==
    Quiescent =>
        \A c \in Displayed :
            ~Falsy(LookupCode(c)) => containers[c].html.by = Len(passes)

\* C4: once theme changes have stopped and every engine call has settled, every
\* displayed diagram (with a non-empty source) that shows rendered markup shows
\* markup rendered under the theme getCurrentTheme returns in that state.
C4_EventualThemeConsistency ==
    Quiescent =>
        \A c \in Displayed :
            (~Falsy(LookupCode(c)) /\ containers[c].html.kind = "svg")
                => containers[c].html.theme = CurrentEngineTheme

\* C5: no two calls of mermaid.render receive the same identifier
\* mermaid-<renderCount>-<index>.
C5_IdentifiersUnique == ~reused

\* C6: at no time are two passes both between their configure step and their
\* Done step (the code supersedes no pass, so every pass counts).
C6_PassesSerialized == Cardinality(Awaiting) <= 1

\* C7: a pass continuation that resumes after a newer pass has been started
\* writes neither markup nor an error placeholder: every write into a container
\* is made by the newest pass.
C7_StaleResultDiscarded ==
    [][\A c \in 1..Len(containers) :
          containers'[c].html # containers[c].html
              => containers'[c].html.by = Len(passes)]_vars

\* C8: every render call a pass issues is made while the engine configuration
\* holds the theme this pass resolved and configured at its start.
C8_RenderUnderOwnTheme ==
    \A p \in Awaiting : passes[p].callTheme = initMermaidWithTheme(passes[p].theme)

\* What a container shows, apart from the render identifier embedded in it.
Outcome(h) == [kind |-> h.kind, theme |-> h.theme, src |-> h.src]

\* Refresh pass p ran after refresh pass p - 1 had ended, neither overlapped any
\* other pass, and both resolved the same theme.
RepeatedRefresh(p) ==
    /\ passes[p].kind = "refresh" /\ passes[p].solo
    /\ passes[p - 1].kind = "refresh" /\ passes[p - 1].solo
    /\ passes[p].theme = passes[p - 1].theme

\* C9: of two refresh passes run one after the other under the same theme, the
\* second overwrites exactly what the first wrote, and each container it writes
\* keeps its outcome (kind of result, theme, source): only the render identifier
\* differs.
C9_RefreshIdempotent ==
    [][\A p \in 2..Len(passes) :
          RepeatedRefresh(p) =>
              /\ \A c \in 1..Len(containers) :
                     (containers'[c].html.by = p /\ containers[c].html.by # p)
                         => /\ containers[c].html.by = p - 1
                            /\ Outcome(containers'[c].html) = Outcome(containers[c].html)
              /\ (passes'[p].st = "done" /\ passes[p].st # "done")
                     => \A c \in 1..Len(containers) : containers'[c].html.by # p - 1]_vars

\* C9's case: the second of two such refresh passes has ended, having rendered
\* one diagram to markup and another to an error placeholder.
C9_Witness ==
    \E p \in 2..Len(passes) :
        /\ RepeatedRefresh(p)
        /\ passes[p].st = "done"
        /\ \E c \in 1..Len(containers) :
               containers[c].html.by = p /\ containers[c].html.kind = "svg"
        /\ \E c \in 1..Len(containers) :
               containers[c].html.by = p /\ containers[c].html.kind = "err"

\* C10: when exactly one theme-attribute write has been observed, after the
\* discovery pass had finished, exactly one refresh pass has been started, and
\* once it has ended every registered diagram shows a result that this pass
\* rendered under the new theme.
C10_OneTransitionOneRefresh ==
    (/\ mutations = 1 /\ quietWrites /\ records = <<>>
     /\ Len(passes) >= 2 /\ Ended(2))
        => /\ Len(passes) = 2
           /\ passes[2].kind = "refresh"
           /\ passes[2].theme = getCurrentTheme(dataTheme, prefersDark)
           /\ \A e \in mermaidCodeMap :
                  /\ containers[e.key].html.by = 2
                  /\ containers[e.key].html.theme = CurrentEngineTheme

\* C10 restricted to the registered diagrams whose source is not empty.
C10_NonEmptySources ==
    (/\ mutations = 1 /\ quietWrites /\ records = <<>>
     /\ Len(passes) >= 2 /\ Ended(2))
        => /\ Len(passes) = 2
           /\ passes[2].kind = "refresh"
           /\ passes[2].theme = getCurrentTheme(dataTheme, prefersDark)
           /\ \A e \in mermaidCodeMap :
                  e.code # "" =>
                      /\ containers[e.key].html.by = 2
                      /\ containers[e.key].html.theme = CurrentEngineTheme

\* A step of a refresh pass: its start (lines 97-115) or one of its
\* continuations (lines 115-125).
RefreshStep ==
    \/ /\ Len(passes') = Len(passes) + 1
       /\ passes'[Len(passes')].kind = "refresh"
    \/ \E p \in 1..Len(passes) :
           /\ passes[p].kind = "refresh"
           /\ passes'[p].pos # passes[p].pos

\* C11: a step of a refresh pass performs no discovery: it leaves the registry
\* as it is, creates no container, changes no container's place or position
\* index, replaces no block of the document, and leaves the page, the theme
\* attribute and the observer alone. (What it may change: the content of
\* existing containers, the engine configuration and the epoch counter.)
C11_RefreshNoDiscovery ==
    [][RefreshStep =>
          /\ mermaidCodeMap' = mermaidCodeMap
          /\ Len(containers') = Len(containers)
          /\ \A c \in 1..Len(containers) :
                 /\ containers'[c].slot = containers[c].slot
                 /\ containers'[c].index = containers[c].index
          /\ doc' = doc
          /\ page' = page
          /\ dataTheme' = dataTheme
          /\ prefersDark' = prefersDark
          /\ observers' = observers]_vars

\* C11's case: a refresh pass has rendered a diagram and ended while a wrapped
\* source block was still in the document, not replaced by a container.
C11_Witness ==
    \E p \in 1..Len(passes) :
        /\ passes[p].kind = "refresh" /\ passes[p].st = "done"
        /\ passes[p].index >= 1
        /\ \E c \in 1..Len(containers) : containers[c].html.by = p
        /\ \E k \in WrappedBlocks : doc[k] = 0

\* A step of the discovery pass: its start (lines 34-60) or one of its
\* continuations (lines 60-72).
DiscoveryStep ==
    \/ /\ Len(passes') = Len(passes) + 1
       /\ passes'[Len(passes')].kind = "discovery"
    \/ \E p \in 1..Len(passes) :
           /\ passes[p].kind = "discovery"
           /\ passes'[p].pos # passes[p].pos

\* C12: every registry entry survives every step with its source text
\* unchanged (the container's lookup returns the same text afterwards), and the
\* registry changes only in a step of the discovery pass.
C12_EntriesImmutable ==
    [][/\ \A e \in mermaidCodeMap :
              /\ e \in mermaidCodeMap'
              /\ \A f \in mermaidCodeMap' : f.key = e.key => f.code = e.code
       /\ mermaidCodeMap' # mermaidCodeMap => DiscoveryStep]_vars

\* C12's case: two entries were registered, the theme was written twice and two
\* refresh passes have rendered and ended since; both entries are in the registry.
C12_Witness ==
    /\ Cardinality(mermaidCodeMap) = 2
    /\ mutations = 2
    /\ Cardinality({p \in 1..Len(passes) :
                       /\ passes[p].kind = "refresh" /\ passes[p].st = "done"
                       /\ passes[p].index >= 1}) = 2
    /\ \A k \in WrappedBlocks : doc[k] # 0 /\ LookupCode(doc[k]) = page[k].text

\* The place in the document of diagram j of pass p.
SlotOf(p, j) ==
    IF passes[p].kind = "discovery" THEN passes[p].items[j]
    ELSE containers[passes[p].items[j]].slot

\* Pass p has written a render's outcome for its diagram j.
Settled(p, j) ==
    /\ ContainerOf(p, j) # 0
    /\ containers[ContainerOf(p, j)].html.kind # "none"

\* Pass p has not yet come to its diagram j: in a discovery pass the block has
\* no container, in a refresh pass the container holds nothing written by p.
Untouched(p, j) ==
    IF passes[p].kind = "discovery"
    THEN /\ doc[passes[p].items[j]] = 0
         /\ \A c \in 1..Len(containers) : containers[c].slot # passes[p].items[j]
    ELSE containers[passes[p].items[j]].html.by # p

\* C13: a pass goes through its diagrams in document (registration) order, one
\* render call at a time: while its call for a diagram is pending, every earlier
\* diagram of the pass has had its outcome written, no later diagram has been
\* touched, and the pending call is the next in the pass's numbering.
C13_SequentialInOrder ==
    \A p \in 1..Len(passes) :
        /\ \A i \in 1..(Len(passes[p].items) - 1) :
               /\ SlotOf(p, i) < SlotOf(p, i + 1)
               /\ passes[p].items[i] < passes[p].items[i + 1]
        /\ passes[p].st = "await" =>
               LET R == Rendered(p)
                   pos == passes[p].pos
               IN  /\ pos \in R
                   /\ \A j \in R :
                          /\ j < pos => Settled(p, j)
                          /\ j > pos => Untouched(p, j)
                   /\ passes[p].callIdx = Cardinality({j \in R : j < pos})
                   /\ passes[p].index = passes[p].callIdx

\* C13's case: a refresh pass is waiting for the render of its second diagram,
\* having written the outcome of the first.
C13_Witness ==
    \E p \in 1..Len(passes) :
        /\ passes[p].kind = "refresh" /\ passes[p].st = "await"
        /\ passes[p].pos = 2 /\ passes[p].callIdx = 1
        /\ containers[passes[p].items[1]].html.by = p
        /\ containers[passes[p].items[2]].html.by # p

\* C14: the theme a pass resolves at its start is the theme attribute when that
\* is exactly "dark" or "light"; when the attribute is absent or has any other
\* value it is "dark" if the ambient preference is dark and "light" otherwise;
\* it is always one of the two.
C14_ThemeResolution ==
    [][Len(passes') = Len(passes) + 1 =>
          LET t == passes'[Len(passes')].theme
          IN  /\ t \in {"light", "dark"}
              /\ dataTheme = "dark" => t = "dark"
              /\ dataTheme = "light" => t = "light"
              /\ dataTheme \notin {"dark", "light"}
                     => t = (IF prefersDark THEN "dark" ELSE "light")
              /\ engineTheme' = (IF t = "dark" THEN "dark" ELSE "default")]_vars

\* C14's case: the attribute was written to a value that is neither theme while
\* the preference is dark, and the refresh pass it triggered resolved "dark".
C14_Witness ==
    /\ dataTheme = "auto" /\ prefersDark
    /\ mutations >= 1 /\ records = <<>>
    /\ passes[Len(passes)].kind = "refresh"
    /\ passes[Len(passes)].theme = "dark"
    /\ engineTheme = "dark"

RefreshPasses == {p \in 1..Len(passes) : passes[p].kind = "refresh"}

\* C15: writes of other attributes of the document root start no refresh pass
\* and change nothing. No record of another attribute is queued for the
\* observer; there are never more refresh passes than theme-attribute writes;
\* and as long as only other attributes have been written, there is no refresh
\* pass, every container holds what the discovery pass wrote, and the engine
\* configuration and the epoch counter are as the discovery pass left them.
C15_OtherAttributesIgnored ==
    /\ \A i \in 1..Len(records) : records[i] = "data-theme"
    /\ Cardinality(RefreshPasses) <= mutations
    /\ mutations = 0 =>
           /\ records = <<>>
           /\ RefreshPasses = {}
           /\ \A c \in 1..Len(containers) : containers[c].html.by \in {0, 1}
           /\ renderCount <= 1
           /\ engineTheme = IF passes = <<>> THEN "default"
                            ELSE initMermaidWithTheme(passes[1].theme)

\* C15's case: after the discovery pass rendered a diagram, other attributes of
\* the root were written twice and the theme attribute never.
C15_Witness ==
    /\ otherWrites = 2 /\ mutations = 0
    /\ observers > 0
    /\ Len(passes) = 1 /\ passes[1].st = "done"
    /\ \E c \in 1..Len(containers) : containers[c].html.kind = "svg"

\* C16: once every record has been delivered, as many refresh passes have been
\* started as theme-attribute mutations were observed, also when several
\* mutations were delivered in one batch.
C16_RefreshPerMutation ==
    records = <<>> => Cardinality(RefreshPasses) = mutations

\* The observer is handed its queued records: the step in which its callback runs.
BatchDelivered == records # <<>> /\ records' = <<>>

\* C16 (amended): every batch delivered to the observer that holds at least one
\* theme-attribute record starts exactly one refresh pass, however many records
\* it holds; that pass resolves the theme from the attribute's value at
\* delivery; and no refresh pass starts in any other step.
C16_OneRefreshPerBatch ==
    [][/\ (BatchDelivered /\ \E i \in 1..Len(records) : records[i] = "data-theme")
           => /\ Len(passes') = Len(passes) + 1
              /\ passes'[Len(passes')].kind = "refresh"
              /\ passes'[Len(passes')].theme = getCurrentTheme(dataTheme, prefersDark)
       /\ (Len(passes') > Len(passes) /\ passes'[Len(passes')].kind = "refresh")
           => /\ BatchDelivered
              /\ Len(passes') = Len(passes) + 1]_vars

\* C16's case: two theme-attribute mutations were delivered in one batch, which
\* started one refresh pass.
C16_Witness ==
    /\ mutations = 2 /\ records = <<>>
    /\ Cardinality(RefreshPasses) = 1
    /\ passes[Len(passes)].kind = "refresh"
    /\ passes[Len(passes)].theme = dataTheme

\* The diagrams of pass p that have a source: the wrapped blocks of a discovery
\* pass, the registered containers of a refresh pass.
Sourced(p) ==
    IF passes[p].kind = "discovery"
    THEN {j \in 1..Len(passes[p].items) : page[passes[p].items[j]].wrapped}
    ELSE {j \in 1..Len(passes[p].items) : LookupCode(passes[p].items[j]) # "undefined"}

\* C17: a pass, discovery or refresh, hands the source of each of its diagrams
\* to the engine, the empty source included: a finished pass has made one
\* render call per diagram that has a source.
C17_EmptySourceRendered ==
    \A p \in 1..Len(passes) :
        passes[p].st = "done" => passes[p].index = Cardinality(Sourced(p))

\* C18: every registry entry has a non-empty source text, whatever the page.
C18_SourcesNonEmpty == \A e \in mermaidCodeMap : e.code # ""

\* C18 (amended): the source text of every registry entry is exactly the text
\* of the block its container was created for: empty for a block whose text is
\* empty, non-empty for every other block. Every container has such an entry.
C18_EntryIsBlockText ==
    /\ \A e \in mermaidCodeMap : e.code = page[containers[e.key].slot].text
    /\ \A c \in 1..Len(containers) : LookupCode(c) = page[containers[c].slot].text

\* C18's case: a page with an empty block and a non-empty one has been through
\* discovery and a refresh pass; the registry holds an empty and a non-empty text.
C18_Witness ==
    /\ \E e \in mermaidCodeMap : e.code = ""
    /\ \E e \in mermaidCodeMap : e.code # ""
    /\ passes[1].st = "done"
    /\ \E p \in RefreshPasses : passes[p].st = "done" /\ passes[p].index = 1

\* C19: a refresh pass that has run to completion has issued a render call for
\* every diagram that had a registry entry when the pass started, the entries
\* registered by a discovery pass still in flight included.
C19_RefreshCoversRegistry ==
    \A p \in RefreshPasses :
        passes[p].st = "done" =>
            \A c \in passes[p].known :
                \E j \in Rendered(p) : passes[p].items[j] = c

\* C19 for the diagrams that were in the document, with a non-empty source,
\* when the pass started.
C19_DisplayedNonEmpty ==
    \A p \in RefreshPasses :
        passes[p].st = "done" =>
            \A c \in passes[p].known :
                (LookupCode(c) # "" /\ \E j \in 1..Len(passes[p].items) : passes[p].items[j] = c)
                    => \E j \in Rendered(p) : passes[p].items[j] = c

\* The passes that have reached their end having made at least one render call.
DoneRendering == {p \in 1..Len(passes) : passes[p].st = "done" /\ passes[p].index >= 1}

\* The passes that have reached their renderCount++: every finished pass but a
\* refresh pass that found no diagram in the document (return, line 104).
DoneCounted ==
    {p \in 1..Len(passes) :
        /\ passes[p].st = "done"
        /\ passes[p].kind = "discovery" \/ Len(passes[p].items) > 0}

\* C20: renderCount equals the number of passes that rendered at least one
\* diagram and have reached their end.
C20_CountsRenderingPasses == renderCount = Cardinality(DoneRendering)

\* C20 (amended): renderCount equals the number of finished passes other than
\* refresh passes that found no diagram: a pass counts itself once, at its end
\* and not before, whether or not it rendered anything; every finished pass
\* that rendered a diagram is among them. The counter never decreases: no
\* value of it read earlier, for a pending call or for content already
\* written, exceeds its present value.
C20_CountsFinishedPasses ==
    /\ renderCount = Cardinality(DoneCounted)
    /\ DoneRendering \subseteq DoneCounted
    /\ \A p \in Awaiting : passes[p].callEpoch <= renderCount
    /\ \A c \in 1..Len(containers) : containers[c].html.epoch <= renderCount

\* C20's case: the discovery pass rendered a diagram and ended, and a refresh
\* pass ended having found the diagram and rendered nothing: the counter is 2.
C20_Witness ==
    /\ Len(passes) >= 2
    /\ passes[1].st = "done" /\ passes[1].index >= 1
    /\ \E p \in RefreshPasses :
           passes[p].st = "done" /\ Len(passes[p].items) > 0 /\ passes[p].index = 0
    /\ renderCount = 2

\* C21: with a render call of the first refresh pass allowed never to settle,
\* every batch of theme mutations is still delivered, and every later refresh
\* pass runs to its end; a pass that is still waiting has not counted itself.
C21_StallIsLocal ==
    /\ (records # <<>>) ~> (records = <<>>)
    /\ \A q \in 3..(MaxMutations + 1) :
           (Len(passes) >= q) ~> (Len(passes) >= q /\ passes[q].st = "done")
    /\ [](\A p \in Awaiting : p \notin DoneCounted)

\* C21's case: the first refresh pass is still waiting for its render while a
\* refresh pass started after it has rendered the diagram and ended.
C21_Witness ==
    /\ Len(passes) >= 3
    /\ passes[2].st = "await"
    /\ passes[3].st = "done" /\ passes[3].index >= 1
    /\ \E c \in 1..Len(containers) : containers[c].html.by = 3
    /\ renderCount = 2

\* The passes that have ended, in whatever way, having made a render call.
EndedRendering == {p \in 1..Len(passes) : Ended(p) /\ passes[p].index >= 1}

\* C22: no render failure escapes a pass. No pass ends by a rejection: a pass
\* is either waiting for a render or has run to its end; every pass that has
\* ended after making render calls, rejected ones included, has counted
\* itself in renderCount; and a rejected call counts as a render of the pass.
C22_NoFailureEscapes ==
    /\ \A p \in 1..Len(passes) : passes[p].st \in {"await", "done"}
    /\ EndedRendering \subseteq DoneCounted
    /\ renderCount >= Cardinality(EndedRendering)
    /\ \A p \in 1..Len(passes) :
           (passes[p].st = "await" /\ ~EngineAccepts(passes[p].callText))
               => passes[p].pos \in Rendered(p)

\* C22's case: a refresh pass over two diagrams has ended with both of its
\* render calls rejected, and has counted itself.
C22_Witness ==
    \E p \in RefreshPasses :
        /\ passes[p].st = "done" /\ passes[p].index = 2
        /\ \A j \in 1..2 :
               /\ containers[passes[p].items[j]].html.kind = "err"
               /\ containers[passes[p].items[j]].html.by = p
        /\ renderCount = p

\* C23: while a render call for a container is pending, the container is in
\* the registry and in the document: the discovery pass has put it in the
\* place of its block before issuing the call.
C23_SubstitutedBeforeRender ==
    \A p \in Awaiting :
        /\ LookupCode(passes[p].target) # "undefined"
        /\ passes[p].target \in Displayed

\* C24: a pass resolves the theme once, at its start, from the theme attribute
\* and the preference as they are then, and configures the engine with it in
\* the same step, before its first render call; no later step of the pass
\* changes the theme it resolved or the engine configuration, whatever has
\* become of the theme attribute: the configuration changes only when a pass
\* starts.
C24_ConfigureOnceAtStart ==
    [][/\ \A p \in 1..Len(passes) : passes'[p].theme = passes[p].theme
       /\ Len(passes') = Len(passes) + 1 =>
              LET new == passes'[Len(passes')]
              IN  /\ new.theme = getCurrentTheme(dataTheme, prefersDark)
                  /\ engineTheme' = (IF new.theme = "dark" THEN "dark" ELSE "default")
                  /\ new.st = "await" => new.callTheme = engineTheme'
       /\ Len(passes') = Len(passes) => engineTheme' = engineTheme]_vars

\* C24's case: a pass is waiting for its second render under the theme it
\* resolved at its start, the theme attribute has been changed since, and the
\* engine still has the configuration the pass gave it.
C24_Witness ==
    \E p \in 1..Len(passes) :
        /\ passes[p].st = "await" /\ passes[p].callIdx = 1
        /\ passes[p].theme # getCurrentTheme(dataTheme, prefersDark)
        /\ records # <<>>
        /\ engineTheme = initMermaidWithTheme(passes[p].theme)
        /\ passes[p].callTheme = engineTheme

\* C25: when every render call settles, every pass that has started reaches
\* its end, and no pass makes more render calls than the number of diagrams
\* it enumerated when it started.
C25_EveryPassTerminates ==
    /\ \A q \in 1..(MaxMutations + 1) :
           (Len(passes) >= q) ~> (Len(passes) >= q /\ passes[q].st = "done")
    /\ [](\A p \in 1..Len(passes) :
             /\ passes[p].index <= Len(passes[p].items)
             /\ passes[p].pos <= Len(passes[p].items) + 1
             /\ passes[p].st = "await" => passes[p].index < passes[p].pos)

\* C25's case: three passes that overlapped one another have all ended, each
\* having made one render call per diagram it had enumerated.
C25_Witness ==
    /\ Len(passes) = 3
    /\ \A p \in 1..3 :
           /\ passes[p].st = "done"
           /\ passes[p].index = Len(passes[p].items)
    /\ ~passes[2].solo /\ ~passes[3].solo
    /\ Len(passes[3].items) = 2

\* The containers pass p may render: the diagrams it enumerated at its start,
\* for a discovery pass the containers made for the blocks it enumerated.
Targets(p) ==
    IF passes[p].kind = "discovery"
    THEN {c \in 1..Len(containers) :
             \E j \in 1..Len(passes[p].items) : containers[c].slot = passes[p].items[j]}
    ELSE {passes[p].items[j] : j \in 1..Len(passes[p].items)}

\* C26: what a pass renders is fixed when it starts. The diagrams of a refresh
\* pass were all registered before it started; the pending call of a pass is
\* for the diagram at its current position in that enumeration; and every
\* container holding content written by a pass is one of those the pass
\* enumerated, so a container that came into the document later holds none.
C26_SnapshotAtEntry ==
    \A p \in 1..Len(passes) :
        /\ passes[p].kind = "refresh" => Targets(p) \subseteq passes[p].known
        /\ passes[p].st = "await" =>
               /\ passes[p].pos \in 1..Len(passes[p].items)
               /\ passes[p].target \in Targets(p)
               /\ passes[p].kind = "refresh"
                      => passes[p].target = passes[p].items[passes[p].pos]
        /\ \A c \in 1..Len(containers) :
               containers[c].html.by = p => c \in Targets(p)

\* C26's case: a refresh pass that enumerated one diagram has ended; a second
\* container came into the document while it was suspended and holds nothing
\* written by that pass.
C26_Witness ==
    \E p \in RefreshPasses :
        /\ passes[p].st = "done" /\ Len(passes[p].items) = 1
        /\ containers[passes[p].items[1]].html.by = p
        /\ Cardinality(Displayed) = 2
        /\ \A c \in Displayed : c # passes[p].items[1] => containers[c].html.by = 1

\* C27: when a render call of a refresh pass is rejected, the step in which it
\* settles leaves in the container the error placeholder of that call (the
\* engine's error for the source handed to it), written by this pass: nothing
\* an earlier pass wrote is left in it.
C27_FailureReplacesMarkup ==
    [][\A p \in 1..Len(passes) :
          (/\ passes[p].kind = "refresh" /\ passes[p].st = "await"
           /\ passes'[p].pos # passes[p].pos
           /\ ~EngineAccepts(passes[p].callText))
              => LET h == containers'[passes[p].target].html
                 IN  /\ h.kind = "err"
                     /\ h.by = p
                     /\ h.src = passes[p].callText
                     /\ h.src = LookupCode(passes[p].target)]_vars

\* C27's case: a container that held what the discovery pass wrote now holds
\* the error placeholder of a refresh pass, which has gone on to its end.
C27_Witness ==
    \E p \in RefreshPasses :
        /\ passes[p].st = "done"
        /\ passes[1].st = "done"
        /\ \E c \in 1..Len(containers) :
               /\ containers[c].html.kind = "err"
               /\ containers[c].html.by = p
               /\ containers[c].html.epoch >= 1

\* C28: a code block without a wrapper stays in the document as it is: no
\* container is ever created and no entry registered for it, and no render
\* call is made for it. It takes no position index, so each container's index
\* is the number of wrapped blocks before its block; and once the discovery
\* pass has ended, every wrapped block, also one after an unwrapped block, has
\* been replaced by a container.
C28_UnwrappedSkipped ==
    /\ \A k \in 1..Len(page) :
           ~page[k].wrapped =>
               /\ doc[k] = 0
               /\ \A c \in 1..Len(containers) : containers[c].slot # k
    /\ Cardinality(mermaidCodeMap) = Len(containers)
    /\ \A c \in 1..Len(containers) :
           containers[c].index
               = Cardinality({i \in WrappedBlocks : i < containers[c].slot})
    /\ \A p \in 1..Len(passes) :
           /\ passes[p].st = "await" => containers[passes[p].target].slot \in WrappedBlocks
           /\ passes[p].kind = "discovery" =>
                  /\ passes[p].index <= Cardinality(WrappedBlocks)
                  /\ passes[p].st = "done" =>
                         /\ passes[p].index = Cardinality(WrappedBlocks)
                         /\ \A k \in WrappedBlocks : doc[k] # 0

\* C28's case: the discovery pass has ended on a page whose first block has no
\* wrapper and whose second block has one: the second block's container has
\* position index 0 and is in the document, the first block is untouched.
C28_Witness ==
    /\ Len(page) = 2 /\ ~page[1].wrapped /\ page[2].wrapped
    /\ Len(passes) >= 1 /\ passes[1].st = "done"
    /\ doc[1] = 0 /\ doc[2] # 0
    /\ containers[doc[2]].index = 0
    /\ containers[doc[2]].html.kind # "none"
    /\ Len(containers) = 1

\* Once the discovery pass has ended, the containers carry the position
\* indices 0..N-1 for the N wrapped blocks, in document order.
PositionsInOrder ==
    (Len(passes) >= 1 /\ passes[1].st = "done") =>
        /\ {containers[c].index : c \in 1..Len(containers)}
               = 0..(Cardinality(WrappedBlocks) - 1)
        /\ \A c, d \in 1..Len(containers) :
               containers[c].slot < containers[d].slot
                   => containers[c].index < containers[d].index

\* C29: the containers carry the position indices 0..N-1 in document order,
\* and the identifier of every render call, of a discovery or a refresh pass,
\* is made of the epoch and of the position index of the container rendered.
C29_IdentifierIsPosition ==
    /\ PositionsInOrder
    /\ \A p \in Awaiting : passes[p].callIdx = containers[passes[p].target].index

\* C29 on pages without an empty block.
C29_NoEmptyBlock ==
    (\A k \in 1..Len(page) : page[k].text # "") => C29_IdentifierIsPosition

\* C30: a pass that finds no diagram when it starts ends in the same step,
\* having made no render call and changed no container and no registry entry;
\* a discovery pass that found no block has then added one to renderCount, a
\* refresh pass that found no container has left renderCount as it was.
C30_ZeroDiagramPass ==
    [][(Len(passes') = Len(passes) + 1 /\ Len(passes'[Len(passes')].items) = 0)
          => LET new == passes'[Len(passes')]
             IN  /\ new.st = "done" /\ new.index = 0
                 /\ issued' = issued
                 /\ containers' = containers
                 /\ mermaidCodeMap' = mermaidCodeMap
                 /\ doc' = doc
                 /\ new.kind = "discovery" => renderCount' = renderCount + 1
                 /\ new.kind = "refresh" => renderCount' = renderCount]_vars

\* C30's case: on a page without diagram blocks the discovery pass and then a
\* refresh pass have run: the counter stands at one.
C30_Witness ==
    /\ page = <<>>
    /\ Len(passes) = 2
    /\ passes[1].kind = "discovery" /\ passes[1].st = "done"
    /\ passes[2].kind = "refresh" /\ passes[2].st = "done"
    /\ renderCount = 1 /\ issued = {}

\* C31: whatever a container shows, markup or error placeholder, is the
\* outcome of a render of the source registered for that very container, and
\* every pending render call carries the source registered for the container
\* its continuation will write into.
C31_OwnSourceOnly ==
    /\ \A c \in 1..Len(containers) :
           containers[c].html.kind # "none" =>
               /\ [key |-> c, code |-> containers[c].html.src] \in mermaidCodeMap
               /\ containers[c].html.src = page[containers[c].slot].text
               /\ containers[c].html.kind = ResultKind(containers[c].html.src)
    /\ \A p \in Awaiting :
           [key |-> passes[p].target, code |-> passes[p].callText] \in mermaidCodeMap

\* C31's case: two diagrams with different sources, two refresh passes that
\* overlapped, both ended, and a container left showing what the older of
\* the two wrote after the newer one had written.
C31_Witness ==
    /\ Len(containers) = 2
    /\ page[containers[1].slot].text # page[containers[2].slot].text
    /\ Len(passes) = 3 /\ \A p \in 1..3 : passes[p].st = "done"
    /\ ~passes[3].solo
    /\ passes[2].index = 2 /\ passes[3].index = 2
    /\ \E c \in 1..2 : containers[c].html.by = 2

\* No pass has been started while another was suspended at a render call.
NoOverlap == \A p \in 1..Len(passes) : passes[p].solo

\* C32: as long as no two passes have overlapped, no identifier
\* mermaid-<renderCount>-<index> has been handed to mermaid.render twice, and
\* the passes have issued as many identifiers as they have made render calls.
C32_DistinctWithoutOverlap ==
    NoOverlap =>
        /\ ~reused
        /\ \A p, q \in Awaiting : p = q
        /\ \A p \in Awaiting :
               passes[p].callEpoch = renderCount /\ passes[p].callEpoch = p - 1

\* C32's case: the discovery pass and two refresh passes have run one after
\* the other over two diagrams, six render calls with six identifiers.
C32_Witness ==
    /\ NoOverlap
    /\ Len(passes) = 3 /\ \A p \in 1..3 : passes[p].st = "done" /\ passes[p].index = 2
    /\ Cardinality(issued) = 6
    /\ ~reused

\* The elements of class `mermaid` that have no registry entry.
Unregistered == {c \in 1..Len(containers) : \A e \in mermaidCodeMap : e.key # c}

\* The diagrams among the first n of pass p's enumeration that have an entry.
RegisteredAmong(p, n) == {j \in 1..n : passes[p].items[j] \notin Unregistered}

\* C33: a refresh pass never renders an element without a registry entry:
\* such an element keeps the content it had, no pass ends with a failure, and
\* the per-item sequence number of a render call counts only the registered
\* diagrams enumerated before its target.
C33_LookupMissSkipped ==
    /\ \A c \in Unregistered : containers[c].html = ForeignHtml
    /\ \A p \in 1..Len(passes) :
           /\ passes[p].st # "rejected"
           /\ passes[p].kind = "refresh" =>
                  /\ passes[p].st = "await" =>
                         /\ passes[p].target \notin Unregistered
                         /\ passes[p].callText # "undefined"
                         /\ passes[p].callIdx = Cardinality(RegisteredAmong(p, passes[p].pos - 1))
                  /\ passes[p].st = "done" /\ passes[p].items # <<>> =>
                         passes[p].index = Cardinality(RegisteredAmong(p, Len(passes[p].items)))

\* C33's case: a refresh pass that enumerated an unregistered element before
\* a registered diagram is rendering the diagram under sequence number 0.
C33_Witness ==
    \E p \in Awaiting :
        /\ passes[p].kind = "refresh"
        /\ Len(passes[p].items) = 2
        /\ passes[p].items[1] \in Unregistered
        /\ passes[p].pos = 2 /\ passes[p].callIdx = 0
        /\ containers[passes[p].items[1]].html = ForeignHtml

DiscoveryPasses == {p \in 1..Len(passes) : passes[p].kind = "discovery"}

\* The installed observers that have a batch of records waiting.
PendingObservers ==
    (IF records # <<>> THEN {1} ELSE {})
        \cup {i + 1 : i \in {j \in 1..Len(laterRecords) : laterRecords[j] # <<>>}}

\* The passes that have reached `renderCount++`.
CountedPasses ==
    {p \in 1..Len(passes) :
        passes[p].st = "done" /\ ~(passes[p].kind = "refresh" /\ passes[p].items = <<>>)}

\* The calls of initMermaid work on one registry and one epoch counter, and
\* every call has left one discovery pass and one observer behind.
C34_SharedState ==
    /\ Cardinality(DiscoveryPasses) = observers
    /\ observers > 0 => Len(laterRecords) = observers - 1
    /\ renderCount = Cardinality(CountedPasses)
    /\ \A c \in 1..Len(containers) : \E e \in mermaidCodeMap : e.key = c
    /\ mutations = 0 => RefreshPasses = {} /\ PendingObservers = {}
    /\ mutations = 1 => Cardinality(RefreshPasses) + Cardinality(PendingObservers) \in 1..observers

\* A call of initMermaid starts one discovery pass and adds one observer,
\* leaving the queues of the observers installed before as they are.
C34_CallStep ==
    observers' # observers =>
        /\ observers' = observers + 1
        /\ Len(passes') = Len(passes) + 1
        /\ passes'[Len(passes')].kind = "discovery"
        /\ records' = records
        /\ Len(laterRecords') = observers' - 1
        /\ \A i \in 1..Len(laterRecords) : laterRecords'[i] = laterRecords[i]
        /\ observers = 0 \/ laterRecords'[Len(laterRecords')] = <<>>

\* A write of the theme attribute leaves a batch waiting for every observer
\* installed so far.
C34_WriteStep ==
    mutations' # mutations =>
        /\ records' = Append(records, "data-theme")
        /\ Len(laterRecords') = Len(laterRecords)
        /\ \A i \in 1..Len(laterRecords) :
               laterRecords'[i] = Append(laterRecords[i], "data-theme")
        /\ Cardinality(PendingObservers') = observers

\* Every observer's waiting batch is handed to its callback, which starts one
\* refresh pass; nothing else takes a batch away.
C34_DeliveryStep ==
    /\ mutations' = mutations /\ records' # records =>
           /\ records' = <<>>
           /\ Len(passes') = Len(passes) + 1 /\ passes'[Len(passes')].kind = "refresh"
    /\ \A i \in 1..Len(laterRecords) :
           mutations' = mutations /\ laterRecords'[i] # laterRecords[i] =>
               /\ laterRecords'[i] = <<>>
               /\ Len(passes') = Len(passes) + 1 /\ passes'[Len(passes')].kind = "refresh"

\* C34: every call of initMermaid starts one discovery pass and installs one
\* more observer, no observer is ever removed, all calls share mermaidCodeMap
\* and renderCount, and a theme write made after k calls leaves a batch for
\* each of the k observers, each of which starts one refresh pass.
C34_ObserverPerCall ==
    /\ []C34_SharedState
    /\ [][C34_CallStep /\ C34_WriteStep /\ C34_DeliveryStep]_vars

\* C34's case: initMermaid was called twice, the theme was written once, and
\* both observers have started a refresh pass, counted by the one renderCount.
C34_Witness ==
    /\ observers = 2 /\ mutations = 1
    /\ PendingObservers = {}
    /\ Cardinality(DiscoveryPasses) = 2
    /\ Cardinality(RefreshPasses) = 2
    /\ Awaiting = {}
    /\ renderCount = 4

====
